---------------------------- MODULE Spec2Model ----------------------------
(***************************************************************************)
(* ds-decomp: cross-reference analysis (src/analysis/data.rs) and the      *)
(* file effects of the init command (src/cmd/init.rs).                     *)
(*                                                                         *)
(* Spec     : the Local Pointer Scanner of every module, then one          *)
(*            analyze_external_references call per focus module.           *)
(* SpecInit : Init::run, the files and directories it creates.             *)
(***************************************************************************)
EXTENDS Integers, Sequences, FiniteSets

VARIABLES
    modules,          \* &[Module]: kind, sections, functions, words (read-only)
    symbol_maps,      \* SymbolMaps: module index -> set of symbols
    relocations,      \* module.relocations(): what the Local Scanner recorded
    scanned,          \* number of modules whose Local Scanner pass has run
    outcome,          \* per focus module: "pending", "ok" or the fatal error
    results,          \* per focus module: the RelocationResult returned, or NoResult
    dry,              \* Init.dry
    overlays,         \* init: names (ids) of the overlay modules of the program
    autoloads,        \* init: kinds of the autoload modules of the ROM
    ipc,              \* init: position inside Init::run
    idx,              \* init: loop index inside overlay_configs / autoload_configs
    fs                \* init: paths created under output_path

vars == <<modules, symbol_maps, relocations, scanned, outcome, results,
          dry, overlays, autoloads, ipc, idx, fs>>

analysisVars == <<modules, symbol_maps, relocations, scanned, outcome, results>>
initVars == <<dry, overlays, autoloads, ipc, idx, fs>>

(***************************************************************************)
(* Bounds                                                                  *)
(***************************************************************************)
NumOverlays == 2

NumModules == NumOverlays + 2
ModuleIds == 1..NumModules
MainIndex == NumModules - NumOverlays - 1
ItcmIndex == NumOverlays + 2

(***************************************************************************)
(* Data model                                                              *)
(***************************************************************************)
NoResult == [none |-> TRUE]

Errors == {"DanglingCall", "AmbiguousRelocation", "SymbolConflict"}

\* u32 `x & !1`
ClearThumb(a) == a - (a % 2)

\* u32 `(x & 1) != 0`
ThumbBit(a) == (a % 2) = 1

Range(s) == {s[i] : i \in DOMAIN s}

Call(site, target, thumb, cond) ==
    [site |-> site, target |-> target, thumb |-> thumb, cond |-> cond]

Word(address, value) == [address |-> address, value |-> value]

Func(addr, end, thumb, calls, pools) ==
    [addr |-> addr, end |-> end, thumb |-> thumb, calls |-> calls, pools |-> pools]

Sect(kind, start, end, functions, words) ==
    [kind |-> kind, start |-> start, end |-> end, functions |-> functions, words |-> words]

\* ModuleKind
KindMain == [tag |-> "Arm9", id |-> 0]
KindOverlay(id) == [tag |-> "Overlay", id |-> id]
KindItcm == [tag |-> "Itcm", id |-> 0]
KindDtcm == [tag |-> "Dtcm", id |-> 0]

\* RelocationModule
RelNone == [tag |-> "None", ids |-> <<>>]
RelMain == [tag |-> "Main", ids |-> <<>>]
RelOverlay(id) == [tag |-> "Overlay", ids |-> <<id>>]
RelOverlays(ids) == [tag |-> "Overlays", ids |-> ids]
RelItcm == [tag |-> "Itcm", ids |-> <<>>]
RelDtcm == [tag |-> "Dtcm", ids |-> <<>>]

\* Symbol map entries
SymFunction(f) == [kind |-> "Function", addr |-> f.addr, end |-> f.end, thumb |-> f.thumb]
SymLabel(addr, thumb) == [kind |-> "ExternalLabel", addr |-> addr, end |-> addr, thumb |-> thumb]
SymDataAt(addr) == [kind |-> "Data", addr |-> addr, end |-> addr, thumb |-> FALSE]
SymBssAt(addr) == [kind |-> "Bss", addr |-> addr, end |-> addr, thumb |-> FALSE]

\* Relocation::new_call / Relocation::new_load
new_call(from, to, module, from_thumb, to_thumb) ==
    [kind |-> "Call", from |-> from, to |-> to, addend |-> 0, module |-> module,
     from_thumb |-> from_thumb, to_thumb |-> to_thumb]

new_load(from, to, addend, module) ==
    [kind |-> "Load", from |-> from, to |-> to, addend |-> addend, module |-> module,
     from_thumb |-> FALSE, to_thumb |-> FALSE]

ExternalSymbol(candidates, address) == [candidates |-> candidates, address |-> address]

SymbolCandidate(module_index, section_index) ==
    [module_index |-> module_index, section_index |-> section_index]

(***************************************************************************)
(* Inputs: the module set the ROM loader and the disassembler hand over.   *)
(* Main owns [0,52); every overlay loads into the shared window [64,84);   *)
(* the ITCM autoload sits either apart (96) or, as an analysis error, on   *)
(* top of the overlay window (64).                                         *)
(***************************************************************************)
MainCallsF ==
    { Call(0, 4, FALSE, FALSE),     \* into the middle of F
      Call(0, 4, TRUE, FALSE),
      Call(0, 32, FALSE, FALSE),    \* inside Main's Code section, inside no function
      Call(0, 32, FALSE, TRUE),
      Call(0, 64, FALSE, FALSE),    \* the overlay window
      Call(0, 64, TRUE, FALSE),
      Call(0, 64, TRUE, TRUE),
      Call(0, 120, FALSE, FALSE) }  \* no module

MainCallsG ==
    { <<>>,
      <<Call(16, 4, TRUE, FALSE)>>,
      <<Call(16, 32, FALSE, FALSE)>>,
      <<Call(16, 64, TRUE, FALSE)>> }

MainPoolF == {17, 40, 65, 80, 120}
MainPoolG == {48, 68}
MainWords == {17, 44, 64, 68}
ItcmBases == {64, 96}

MainModule(fcall, fpool, gcalls, gpool, w) ==
    [kind |-> KindMain,
     sections |-> <<
        Sect("Code", 0, 40,
             << Func(0, 16, FALSE, <<fcall, Call(2, 16, TRUE, FALSE)>>, <<Word(12, fpool)>>),
                Func(16, 32, TRUE, gcalls, <<Word(28, gpool)>>) >>,
             <<>>),
        Sect("Data", 40, 48, <<>>, <<Word(40, w), Word(44, 48)>>),
        Sect("Bss", 48, 52, <<>>, <<>>) >>]

OverlayModule(id, thumb) ==
    [kind |-> KindOverlay(id),
     sections |-> <<
        Sect("Code", 64, 80,
             << Func(64, 76, thumb,
                     IF id % 2 = 0 THEN <<Call(64, 64, TRUE, FALSE)>>
                                   ELSE <<Call(64, 68, FALSE, FALSE)>>,
                     <<Word(72, 40)>>) >>,
             <<>>),
        Sect("Data", 80, 84, <<>>, <<Word(80, IF id % 2 = 0 THEN 17 ELSE 80)>>) >>]

ItcmModule(base) ==
    [kind |-> KindItcm,
     sections |-> <<
        Sect("Code", base, base + 16,
             << Func(base, base + 12, FALSE,
                     <<Call(base, 16, TRUE, FALSE), Call(base + 2, 16, FALSE, FALSE)>>,
                     <<>>) >>,
             <<>>),
        Sect("Data", base + 16, base + 20, <<>>, <<Word(base + 16, 120)>>) >>]

\* Overlay 0 holds a Thumb function; the other overlays' functions are ARM or Thumb.
OverlayThumbs == { t \in [0..(NumOverlays - 1) -> BOOLEAN] : t[0] }

ModuleSets ==
    { [i \in ModuleIds |->
         IF i = MainIndex THEN main
         ELSE IF i = ItcmIndex THEN ItcmModule(base)
         ELSE OverlayModule(i - 2, t[i - 2])] :
      main \in { MainModule(fc, fp, gc, gp, w) :
                   fc \in MainCallsF, fp \in MainPoolF, gc \in MainCallsG,
                   gp \in MainPoolG, w \in MainWords },
      base \in ItcmBases,
      t \in OverlayThumbs }

AllFunctions(module) ==
    UNION { Range(module.sections[s].functions) : s \in DOMAIN module.sections }

\* the symbol map the disassembly leaves: one Function symbol per function
InitialSymbols(module) == { SymFunction(f) : f \in AllFunctions(module) }

(***************************************************************************)
(* Section Map and Symbol Map                                              *)
(***************************************************************************)
\* Sections::get_by_contained_address: index of the section whose half-open
\* range contains addr, 0 for none
get_by_contained_address(sections, addr) ==
    IF \E i \in DOMAIN sections : sections[i].start <= addr /\ addr < sections[i].end
    THEN CHOOSE i \in DOMAIN sections : sections[i].start <= addr /\ addr < sections[i].end
    ELSE 0

\* section.functions().get(&addr): the functions starting exactly at addr
functions_get(section, addr) == { f \in Range(section.functions) : f.addr = addr }

\* SymbolMap::get_function: exact address
get_function(symbol_map, addr) ==
    { s \in symbol_map : s.kind = "Function" /\ s.addr = addr }

\* SymbolMap::get_function_containing: the function whose [start, end) holds addr
get_function_containing(symbol_map, addr) ==
    { s \in symbol_map : s.kind = "Function" /\ s.addr <= addr /\ addr < s.end }

\* SymbolMap::add_data / add_bss: idempotent on a symbol of the same kind,
\* SymbolConflict on a symbol of another kind at the address
add_symbol(symbol_map, sym) ==
    IF \E s \in symbol_map : s.addr = sym.addr /\ s.kind # sym.kind
    THEN [ok |-> FALSE, map |-> symbol_map]
    ELSE [ok |-> TRUE, map |-> symbol_map \cup {sym}]

add_data(symbol_map, addr) == add_symbol(symbol_map, SymDataAt(addr))

add_bss(symbol_map, addr) == add_symbol(symbol_map, SymBssAt(addr))

\* SymbolMap::add_external_label: a no-op at a function start, idempotent on
\* the same label, SymbolConflict on a symbol that disagrees in kind or Thumb
add_external_label(symbol_map, addr, thumb) ==
    IF get_function(symbol_map, addr) # {}
    THEN [ok |-> TRUE, map |-> symbol_map]
    ELSE IF \E s \in symbol_map :
              s.addr = addr /\ (s.kind # "ExternalLabel" \/ s.thumb # thumb)
    THEN [ok |-> FALSE, map |-> symbol_map]
    ELSE [ok |-> TRUE, map |-> symbol_map \cup {SymLabel(addr, thumb)}]

\* impl TryFrom<ModuleKind> for RelocationModule (no module of an unknown
\* autoload kind exists: Init::run bails on it before building the module)
try_into(module_kind) ==
    CASE module_kind.tag = "Arm9" -> RelMain
      [] module_kind.tag = "Overlay" -> RelOverlay(module_kind.id)
      [] module_kind.tag = "Itcm" -> RelItcm
      [] module_kind.tag = "Dtcm" -> RelDtcm

\* Relocations::add_load
add_load(rels, address, pointer, addend, module) ==
    Append(rels, new_load(address, pointer, addend, module))

\* the elements of a set of numbers, ascending
SortedSeq(S) ==
    [k \in 1..Cardinality(S) |-> CHOOSE x \in S : Cardinality({y \in S : y < x}) = k - 1]

\* RelocationModule::from_modules over the candidate modules, in module order
from_modules(candidates) ==
    IF Len(candidates) = 0 THEN [err |-> "", module |-> RelNone]
    ELSE IF Len(candidates) = 1
    THEN [err |-> "", module |-> try_into(candidates[1].kind)]
    ELSE IF \A i \in DOMAIN candidates : candidates[i].kind.tag = "Overlay"
    THEN [err |-> "",
          module |-> RelOverlays([i \in DOMAIN candidates |-> candidates[i].kind.id])]
    ELSE [err |-> "AmbiguousRelocation", module |-> RelNone]

(***************************************************************************)
(* Local Pointer Scanner.  State: [err, syms (the module's symbol map),    *)
(* rels (the module's relocations)].                                       *)
(***************************************************************************)
\* `symbol_map.add_..(..)?; relocations.add_load(..)?`: r is what the add returned
AddedSymbol(r, address, pointer, module_kind, st) ==
    IF ~r.ok THEN [st EXCEPT !.err = "SymbolConflict"]
    ELSE [st EXCEPT !.syms = r.map,
                    !.rels = add_load(st.rels, address, pointer, 0, try_into(module_kind))]

\* faulty variant: a pointer into a Bss section is recorded as a Data symbol
add_symbol_from_pointer_BssAsData(section, address, pointer, module_kind, st) ==
    CASE section.kind = "Code" ->
            IF get_function(st.syms, pointer) # {}
            THEN [st EXCEPT !.rels = add_load(st.rels, address, pointer, 0, try_into(module_kind))]
            ELSE st
      [] section.kind \in {"Data", "Bss"} ->
            AddedSymbol(add_data(st.syms, pointer), address, pointer, module_kind, st)

add_symbol_from_pointer(section, address, pointer, module_kind, st) ==
    CASE section.kind = "Code" ->
            IF get_function(st.syms, pointer) # {}
            THEN [st EXCEPT !.rels = add_load(st.rels, address, pointer, 0, try_into(module_kind))]
            ELSE st
      [] section.kind = "Data" ->
            AddedSymbol(add_data(st.syms, pointer), address, pointer, module_kind, st)
      [] section.kind = "Bss" ->
            AddedSymbol(add_bss(st.syms, pointer), address, pointer, module_kind, st)

\* one iteration of the loop of find_local_data_from_pools
PoolPointer(si, pool_constant, sections, module_kind, st) ==
    IF si = 0 THEN st
    ELSE IF /\ sections[si].kind = "Code"
            /\ get_function(st.syms, ClearThumb(pool_constant.value)) # {}
    THEN [st EXCEPT !.rels = add_load(st.rels, pool_constant.address, pool_constant.value,
                                      0, try_into(module_kind))]
    ELSE add_symbol_from_pointer(sections[si], pool_constant.address, pool_constant.value,
                                 module_kind, st)

LocalPoolStep(pool_constant, sections, module_kind, st) ==
    PoolPointer(get_by_contained_address(sections, pool_constant.value),
                pool_constant, sections, module_kind, st)

RECURSIVE LocalPoolsFrom(_, _, _, _, _)
LocalPoolsFrom(function, sections, module_kind, st, i) ==
    IF i > Len(function.pools) \/ st.err # "" THEN st
    ELSE LocalPoolsFrom(function, sections, module_kind,
                        LocalPoolStep(function.pools[i], sections, module_kind, st), i + 1)

find_local_data_from_pools(function, sections, module_kind, st) ==
    LocalPoolsFrom(function, sections, module_kind, st, 1)

WordPointer(si, word, sections, module_kind, st) ==
    IF si = 0 THEN st
    ELSE add_symbol_from_pointer(sections[si], word.address, word.value, module_kind, st)

RECURSIVE find_pointers_from(_, _, _, _, _)
find_pointers_from(sections, section, module_kind, st, i) ==
    IF i > Len(section.words) \/ st.err # "" THEN st
    ELSE find_pointers_from(sections, section, module_kind,
             WordPointer(get_by_contained_address(sections, section.words[i].value),
                         section.words[i], sections, module_kind, st),
             i + 1)

find_pointers(sections, section, module_kind, st) ==
    find_pointers_from(sections, section, module_kind, st, 1)

find_local_data_from_section(sections, section, module_kind, st) ==
    find_pointers(sections, section, module_kind, st)

\* the functions of a module: sections in address order, functions in address order
RECURSIVE FunctionsFrom(_, _)
FunctionsFrom(sections, i) ==
    IF i > Len(sections) THEN <<>>
    ELSE sections[i].functions \o FunctionsFrom(sections, i + 1)

FunctionSeq(module) == FunctionsFrom(module.sections, 1)

RECURSIVE ScanFunctionsFrom(_, _, _, _)
ScanFunctionsFrom(module, fs_, st, i) ==
    IF i > Len(fs_) \/ st.err # "" THEN st
    ELSE ScanFunctionsFrom(module, fs_,
             find_local_data_from_pools(fs_[i], module.sections, module.kind, st), i + 1)

RECURSIVE ScanSectionsFrom(_, _, _)
ScanSectionsFrom(module, st, i) ==
    IF i > Len(module.sections) \/ st.err # "" THEN st
    ELSE ScanSectionsFrom(module,
             IF module.sections[i].kind = "Data"
             THEN find_local_data_from_section(module.sections, module.sections[i],
                                               module.kind, st)
             ELSE st,
             i + 1)

\* the Local Scanner of one module: pool constants of every function, then
\* the words of every Data section
LocalScanOf(module, symbol_map, rels) ==
    ScanSectionsFrom(module,
        ScanFunctionsFrom(module, FunctionSeq(module),
                          [err |-> "", syms |-> symbol_map, rels |-> rels], 1),
        1)

(***************************************************************************)
(* Cross-Module Resolver.  State: [err, syms (all symbol maps), rels, exts]*)
(***************************************************************************)
\* faulty variant: locality is looked up in the main module, not in the focus module
IsLocal_InMain(mods, module_index, addr) ==
    get_by_contained_address(mods[MainIndex].sections, addr) # 0

\* local_module.sections().get_by_contained_address(addr).is_some()
IsLocal(mods, module_index, addr) ==
    get_by_contained_address(mods[module_index].sections, addr) # 0

\* the modules at the given indices, in that order
ModulesAt(mods, order) == [k \in DOMAIN order |-> mods[order[k]]]

\* faulty variant: the Thumb flag of the function found is not compared
\* the filter closure of the candidates of a call: si is what
\* get_by_contained_address returned for the module
CallFilter(module, si, called) ==
    /\ si # 0
    /\ \E f \in functions_get(module.sections[si], called.target) : f.thumb = called.thumb

\* faulty variant: the Thumb flag of the function found is not compared
CallFilter_AnyThumb(module, si, called) ==
    /\ si # 0
    /\ functions_get(module.sections[si], called.target) # {}

CallCandidates_AnyThumb(mods, called) ==
    ModulesAt(mods, SortedSeq({ i \in DOMAIN mods :
        CallFilter_AnyThumb(mods[i],
            get_by_contained_address(mods[i].sections, called.target), called) }))

\* the candidate filter of a non-local call: the modules with a section
\* containing the target and, in it, a function starting at the target whose
\* Thumb flag is the call's
CallCandidates(mods, called) ==
    ModulesAt(mods, SortedSeq({ i \in DOMAIN mods :
        CallFilter(mods[i],
            get_by_contained_address(mods[i].sections, called.target), called) }))

\* what the local branch does once the containing function is known:
\* the label goes into the symbol map of module `owner`
LabelCall(mods, module_index, called, syms, symbol, owner) ==
    IF called.target = symbol.addr
    THEN [err |-> "", syms |-> syms, module |-> try_into(mods[module_index].kind)]
    ELSE IF ~add_external_label(syms[owner], called.target, called.thumb).ok
    THEN [err |-> "SymbolConflict", syms |-> syms, module |-> RelNone]
    ELSE [err |-> "",
          syms |-> [syms EXCEPT ![owner] =
                       add_external_label(syms[owner], called.target, called.thumb).map],
          module |-> try_into(mods[module_index].kind)]

LocalCallIn(mods, module_index, called, syms, found, owner) ==
    IF found = {} THEN [err |-> "DanglingCall", syms |-> syms, module |-> RelNone]
    ELSE LabelCall(mods, module_index, called, syms, CHOOSE f \in found : TRUE, owner)

\* faulty variant: the external label goes into the main module's symbol map
LocalCall_LabelInMain(mods, module_index, called, syms) ==
    LocalCallIn(mods, module_index, called, syms,
                get_function_containing(syms[module_index], called.target), MainIndex)

\* the local branch of a call: the containing function in the focus module's
\* own symbol map, an external label if the call lands inside it
LocalCall(mods, module_index, called, syms) ==
    LocalCallIn(mods, module_index, called, syms,
                get_function_containing(syms[module_index], called.target), module_index)

\* the non-local branch of a call: m is the destination-module reduction of
\* the candidates
NonLocalCall(m, syms) == [err |-> m.err, syms |-> syms, module |-> m.module]

\* `let module: RelocationModule = if is_local { .. } else { .. }`
CallModule(mods, module_index, called, syms) ==
    IF IsLocal(mods, module_index, called.target)
    THEN LocalCall(mods, module_index, called, syms)
    ELSE NonLocalCall(from_modules(CallCandidates(mods, called)), syms)

\* the end of the loop body: r is the outcome of the destination-module
\* computation; an error leaves through `?`, otherwise the Call is pushed
PushCall(function, called, st, r) ==
    IF r.err # "" THEN [st EXCEPT !.err = r.err, !.syms = r.syms]
    ELSE [st EXCEPT !.syms = r.syms,
                    !.rels = Append(st.rels,
                        new_call(called.site, called.target, r.module,
                                 function.thumb, called.thumb))]

\* faulty variant: a conditional call is relocated like any other
CallStep_Unconditional(mods, module_index, function, called, st) ==
    PushCall(function, called, st, CallModule(mods, module_index, called, st.syms))

\* one iteration of the loop of add_function_calls_as_relocations
CallStep(mods, module_index, function, called, st) ==
    IF called.cond THEN st
    ELSE PushCall(function, called, st, CallModule(mods, module_index, called, st.syms))

RECURSIVE CallsFrom(_, _, _, _, _)
CallsFrom(mods, module_index, function, st, i) ==
    IF i > Len(function.calls) \/ st.err # "" THEN st
    ELSE CallsFrom(mods, module_index, function,
                   CallStep(mods, module_index, function, function.calls[i], st), i + 1)

add_function_calls_as_relocations(mods, module_index, function, st) ==
    CallsFrom(mods, module_index, function, st, 1)

\* the candidate of each accepted module, in module order
CandidatesAt(mods, order, pointer) ==
    [k \in DOMAIN order |->
        SymbolCandidate(order[k], get_by_contained_address(mods[order[k]].sections, pointer))]

\* faulty variant: a Code-section hit is kept whatever the Thumb flag of the
\* function found
SymbolFilter_AnyThumb(module, si, pointer) ==
    /\ si # 0
    /\ (module.sections[si].kind = "Code" =>
           functions_get(module.sections[si], ClearThumb(pointer)) # {})

\* the filter_map closure of find_symbol_candidates: si is what
\* get_by_contained_address returned for the module
SymbolFilter(module, si, pointer) ==
    /\ si # 0
    /\ (module.sections[si].kind = "Code" =>
           \E f \in functions_get(module.sections[si], ClearThumb(pointer)) :
               f.thumb = ThumbBit(pointer))

find_symbol_candidates(mods, module_index, pointer) ==
    CandidatesAt(mods,
        SortedSeq({ i \in DOMAIN mods \ {module_index} :
            SymbolFilter(mods[i], get_by_contained_address(mods[i].sections, pointer),
                         pointer) }),
        pointer)

\* `candidates.iter().map(|c| &modules[c.module_index])`
CandidateModules(mods, candidates) ==
    [k \in DOMAIN candidates |-> mods[candidates[k].module_index]]

\* the end of find_external_data: m is the destination-module reduction
PushLoad(address, pointer, st, candidates, m) ==
    IF m.err # "" THEN [st EXCEPT !.err = m.err]
    ELSE [st EXCEPT
            !.rels = Append(st.rels, new_load(address, pointer, 0, m.module)),
            !.exts = Append(st.exts, ExternalSymbol(candidates, pointer))]

ReduceAndPush(mods, address, pointer, st, candidates) ==
    PushLoad(address, pointer, st, candidates,
             from_modules(CandidateModules(mods, candidates)))

\* find_external_data once the pointer is known not to be local
ResolveExternal(mods, address, pointer, st, candidates) ==
    IF Len(candidates) = 0 THEN st
    ELSE ReduceAndPush(mods, address, pointer, st, candidates)

\* faulty variant: a pointer into the focus module is resolved like an external one
find_external_data_NoLocalCheck(mods, module_index, address, pointer, st) ==
    ResolveExternal(mods, address, pointer, st,
                    find_symbol_candidates(mods, module_index, pointer))

\* faulty variant: a pointer without candidates is relocated against None
find_external_data_NoneOnEmpty(mods, module_index, address, pointer, st) ==
    IF IsLocal(mods, module_index, pointer) THEN st
    ELSE ReduceAndPush(mods, address, pointer, st,
                       find_symbol_candidates(mods, module_index, pointer))

find_external_data(mods, module_index, address, pointer, st) ==
    IF IsLocal(mods, module_index, pointer) THEN st
    ELSE ResolveExternal(mods, address, pointer, st,
                         find_symbol_candidates(mods, module_index, pointer))

RECURSIVE ExternalWordsFrom(_, _, _, _, _)
ExternalWordsFrom(mods, module_index, words, st, i) ==
    IF i > Len(words) \/ st.err # "" THEN st
    ELSE ExternalWordsFrom(mods, module_index, words,
             find_external_data(mods, module_index, words[i].address, words[i].value, st),
             i + 1)

find_external_data_from_pools(mods, module_index, function, st) ==
    ExternalWordsFrom(mods, module_index, function.pools, st, 1)

\* `?`: the second call runs only if the first returned Ok
PoolsIfOk(mods, module_index, function, st) ==
    IF st.err # "" THEN st
    ELSE find_external_data_from_pools(mods, module_index, function, st)

\* used by the faulty variant below
CallsIfOk(mods, module_index, function, st) ==
    IF st.err # "" THEN st
    ELSE add_function_calls_as_relocations(mods, module_index, function, st)

\* faulty variant: the pool constants of a function are resolved before its calls
FunctionStep_PoolsFirst(mods, module_index, function, st) ==
    CallsIfOk(mods, module_index, function,
              find_external_data_from_pools(mods, module_index, function, st))

\* the body of the loop of find_relocations_in_functions
FunctionStep(mods, module_index, function, st) ==
    PoolsIfOk(mods, module_index, function,
              add_function_calls_as_relocations(mods, module_index, function, st))

RECURSIVE RelocationsFrom(_, _, _, _, _)
RelocationsFrom(mods, module_index, fs_, st, i) ==
    IF i > Len(fs_) \/ st.err # "" THEN st
    ELSE RelocationsFrom(mods, module_index, fs_,
                         FunctionStep(mods, module_index, fs_[i], st), i + 1)

find_relocations_in_functions(mods, module_index, st) ==
    RelocationsFrom(mods, module_index, FunctionSeq(mods[module_index]), st, 1)

RECURSIVE ExternalSectionsFrom(_, _, _, _)
ExternalSectionsFrom(mods, module_index, st, i) ==
    IF i > Len(mods[module_index].sections) \/ st.err # "" THEN st
    ELSE ExternalSectionsFrom(mods, module_index,
             IF mods[module_index].sections[i].kind = "Data"
             THEN ExternalWordsFrom(mods, module_index,
                                    mods[module_index].sections[i].words, st, 1)
             ELSE st,
             i + 1)

find_external_references_in_sections(mods, module_index, st) ==
    ExternalSectionsFrom(mods, module_index, st, 1)

\* RelocationResult::new()
NewResult(syms) == [err |-> "", syms |-> syms, rels |-> <<>>, exts |-> <<>>]

\* `?`: the section pass runs only if the function pass returned Ok
SectionsIfOk(mods, module_index, st) ==
    IF st.err # "" THEN st
    ELSE find_external_references_in_sections(mods, module_index, st)

\* the two passes of analyze_external_references
AnalysisPasses(mods, module_index, syms) ==
    SectionsIfOk(mods, module_index,
                 find_relocations_in_functions(mods, module_index, NewResult(syms)))

\* Ok(result) or the error
Returned(st) ==
    [err |-> st.err,
     syms |-> st.syms,
     result |-> IF st.err # "" THEN NoResult
                ELSE [relocations |-> st.rels, external_symbols |-> st.exts]]

\* faulty variant: the result is returned beside the error
ReturnedPartial(st) ==
    [err |-> st.err,
     syms |-> st.syms,
     result |-> [relocations |-> st.rels, external_symbols |-> st.exts]]

\* faulty variant: on an error the relocations gathered so far are returned
analyze_external_references_Partial(mods, module_index, syms) ==
    ReturnedPartial(AnalysisPasses(mods, module_index, syms))

\* Result<RelocationResult>: the symbol maps as the call leaves them, the
\* error ("" for Ok) and the RelocationResult (NoResult for Err)
analyze_external_references(mods, module_index, syms) ==
    Returned(AnalysisPasses(mods, module_index, syms))

(***************************************************************************)
(* The analysis pipeline                                                   *)
(***************************************************************************)
Init ==
    /\ modules \in ModuleSets
    /\ symbol_maps = [i \in ModuleIds |-> InitialSymbols(modules[i])]
    /\ relocations = [i \in ModuleIds |-> <<>>]
    /\ scanned = 0
    /\ outcome = [i \in ModuleIds |-> "pending"]
    /\ results = [i \in ModuleIds |-> NoResult]
    /\ dry = FALSE
    /\ overlays = <<>>
    /\ autoloads = <<>>
    /\ ipc = "off"
    /\ idx = 0
    /\ fs = {}

\* what a Local Scanner pass leaves in module m
ScanCommit(m, r) ==
    /\ symbol_maps' = [symbol_maps EXCEPT ![m] = r.syms]
    /\ relocations' = [relocations EXCEPT ![m] = r.rels]
    /\ outcome' = IF r.err # "" THEN [outcome EXCEPT ![m] = r.err] ELSE outcome

\* what an analyze_external_references call leaves: the labels it added, and
\* its result or its error
AnalyzeCommit(m, r) ==
    /\ symbol_maps' = r.syms
    /\ outcome' = [outcome EXCEPT ![m] = IF r.err # "" THEN r.err ELSE "ok"]
    /\ results' = [results EXCEPT ![m] = r.result]

\* Module::analyze_*: the Local Scanner of the next module, in module order
LocalScan ==
    /\ scanned < NumModules
    /\ \A i \in ModuleIds : outcome[i] = "pending"
    /\ ScanCommit(scanned + 1,
                  LocalScanOf(modules[scanned + 1], symbol_maps[scanned + 1],
                              relocations[scanned + 1]))
    /\ scanned' = scanned + 1
    /\ UNCHANGED <<modules, results>>
    /\ UNCHANGED initVars

\* one analyze_external_references call, for a focus module not yet analysed;
\* a fatal error ends the analysis
Analyze(m) ==
    /\ scanned = NumModules
    /\ outcome[m] = "pending"
    /\ \A i \in ModuleIds : outcome[i] \in {"pending", "ok"}
    /\ AnalyzeCommit(m, analyze_external_references(modules, m, symbol_maps))
    /\ UNCHANGED <<modules, relocations, scanned>>
    /\ UNCHANGED initVars

Next ==
    \/ LocalScan
    \/ \E m \in ModuleIds : Analyze(m)

Spec == Init /\ [][Next]_vars

(***************************************************************************)
(* Init::run (src/cmd/init.rs).  Paths are relative to output_path.        *)
(***************************************************************************)
AutoloadKinds == {"Itcm", "Dtcm", "Unknown"}

\* module.name() of the overlay with the given id
OverlayName(id) ==
    CASE id = 0 -> "ov000" [] id = 1 -> "ov001" [] id = 2 -> "ov002"
      [] id = 3 -> "ov003" [] OTHER -> "ov004"

Dir(path) == [path |-> path, type |-> "dir"]
File(path) == [path |-> path, type |-> "file"]

\* util::io::create_dir_all: the directory and every missing ancestor below
\* output_path
create_dir_all(files, path) ==
    files \cup { Dir(SubSeq(path, 1, n)) : n \in 1..Len(path) }

\* Delinks::to_file, SymbolMap::to_file, Relocations::to_file in one directory
write_module_files(files, path) ==
    files \cup { File(Append(path, "delinks.txt")),
                 File(Append(path, "symbols.txt")),
                 File(Append(path, "relocs.txt")) }

InitCmd ==
    /\ dry \in BOOLEAN
    /\ overlays \in { [i \in 1..n |-> i - 1] : n \in 0..NumOverlays }
    /\ autoloads \in {<<>>} \cup { <<a>> : a \in AutoloadKinds }
                      \cup { <<a, b>> : a \in AutoloadKinds, b \in AutoloadKinds }
    /\ ipc = "load"
    /\ idx = 0
    /\ fs = {}
    /\ modules = <<>>
    /\ symbol_maps = <<>>
    /\ relocations = <<>>
    /\ scanned = 0
    /\ outcome = <<>>
    /\ results = <<>>

\* Rom::load .. program.analyze_cross_references(): an unknown autoload kind
\* bails; the analysis itself succeeds or bails
RunAnalysis ==
    /\ ipc = "load"
    /\ \/ ipc' = "failed" /\ idx' = idx
       \/ /\ \A i \in DOMAIN autoloads : autoloads[i] # "Unknown"
          /\ ipc' = "overlay_configs"
          /\ idx' = 1
    /\ UNCHANGED <<dry, overlays, autoloads, fs>>
    /\ UNCHANGED analysisVars

\* one iteration of the loop of overlay_configs
OverlayConfig ==
    /\ ipc = "overlay_configs"
    /\ idx <= Len(overlays)
    /\ LET overlay_config_path == <<"arm9", "overlays", OverlayName(overlays[idx])>>
           made == create_dir_all(fs, overlay_config_path)
       IN  fs' = IF ~dry THEN write_module_files(made, overlay_config_path) ELSE made
    /\ idx' = idx + 1
    /\ UNCHANGED <<dry, overlays, autoloads, ipc>>
    /\ UNCHANGED analysisVars

OverlayConfigsDone ==
    /\ ipc = "overlay_configs"
    /\ idx > Len(overlays)
    /\ ipc' = "autoload_configs"
    /\ idx' = 1
    /\ UNCHANGED <<dry, overlays, autoloads, fs>>
    /\ UNCHANGED analysisVars

\* one iteration of the loop of autoload_configs
AutoloadConfig ==
    /\ ipc = "autoload_configs"
    /\ idx <= Len(autoloads)
    /\ IF autoloads[idx] \notin {"Itcm", "Dtcm"}
       THEN /\ ipc' = "failed"
            /\ UNCHANGED <<idx, fs>>
       ELSE LET name == IF autoloads[idx] = "Itcm" THEN "itcm" ELSE "dtcm"
                autoload_path == <<"arm9", name>>
                made == create_dir_all(fs, autoload_path)
            IN  /\ fs' = IF ~dry THEN write_module_files(made, autoload_path) ELSE made
                /\ idx' = idx + 1
                /\ ipc' = ipc
    /\ UNCHANGED <<dry, overlays, autoloads>>
    /\ UNCHANGED analysisVars

AutoloadConfigsDone ==
    /\ ipc = "autoload_configs"
    /\ idx > Len(autoloads)
    /\ ipc' = "arm9_config"
    /\ UNCHANGED <<dry, overlays, autoloads, idx, fs>>
    /\ UNCHANGED analysisVars

\* arm9_config
Arm9Config ==
    /\ ipc = "arm9_config"
    /\ fs' = IF ~dry THEN write_module_files(fs, <<"arm9">>) ELSE fs
    /\ ipc' = "write"
    /\ UNCHANGED <<dry, overlays, autoloads, idx>>
    /\ UNCHANGED analysisVars

\* the tail of Init::run: the config file itself
WriteConfig ==
    /\ ipc = "write"
    /\ fs' = IF ~dry
             THEN create_dir_all(fs, <<"arm9">>) \cup {File(<<"arm9", "config.yaml">>)}
             ELSE fs
    /\ ipc' = "done"
    /\ UNCHANGED <<dry, overlays, autoloads, idx>>
    /\ UNCHANGED analysisVars

NextInit ==
    \/ RunAnalysis
    \/ OverlayConfig
    \/ OverlayConfigsDone
    \/ AutoloadConfig
    \/ AutoloadConfigsDone
    \/ Arm9Config
    \/ WriteConfig

SpecInit == InitCmd /\ [][NextInit]_vars

(***************************************************************************)
(* Vocabulary of the properties, stated over the inputs and the outputs    *)
(***************************************************************************)
Contains(module, addr) ==
    \E s \in Range(module.sections) : s.start <= addr /\ addr < s.end

IsOverlay(i) == modules[i].kind.tag = "Overlay"

\* module i has, in a section containing addr, a function starting at addr
\* with the given Thumb flag
HasFunctionAt(i, addr, thumb) ==
    \E s \in Range(modules[i].sections) :
        /\ s.start <= addr /\ addr < s.end
        /\ \E f \in Range(s.functions) : f.addr = addr /\ f.thumb = thumb

\* module i owns the pointer: a Data or Bss section contains it, or a Code
\* section with a function at the pointer of the pointer's Thumb bit
AcceptsPointer(i, pointer) ==
    \E s \in Range(modules[i].sections) :
        /\ s.start <= pointer /\ pointer < s.end
        /\ \/ s.kind \in {"Data", "Bss"}
           \/ \E f \in Range(s.functions) :
                  f.addr = ClearThumb(pointer) /\ f.thumb = ThumbBit(pointer)

\* the destination names module i
DestNames(dest, i) ==
    \/ dest.tag = "Main" /\ modules[i].kind.tag = "Arm9"
    \/ dest.tag = "Itcm" /\ modules[i].kind.tag = "Itcm"
    \/ dest.tag = "Dtcm" /\ modules[i].kind.tag = "Dtcm"
    \/ dest.tag \in {"Overlay", "Overlays"} /\ IsOverlay(i)
          /\ modules[i].kind.id \in Range(dest.ids)

Analysed(m) == outcome[m] = "ok"

Rels(m) == results[m].relocations

Exts(m) == results[m].external_symbols

CallsOf(m) == UNION { Range(f.calls) : f \in AllFunctions(modules[m]) }

PoolsOf(m) == UNION { Range(f.pools) : f \in AllFunctions(modules[m]) }

DataWordsOf(m) ==
    UNION { Range(s.words) : s \in { x \in Range(modules[m].sections) : x.kind = "Data" } }

\* an unconditional call of m whose target no section of m contains
ExternalCalls(m) ==
    { c \in CallsOf(m) : ~c.cond /\ ~Contains(modules[m], c.target) }

\* a pool constant or Data word of m whose value no section of m contains
ExternalWords(m) ==
    { w \in PoolsOf(m) \cup DataWordsOf(m) : ~Contains(modules[m], w.value) }

RelsAt(m, site) == { i \in DOMAIN Rels(m) : Rels(m)[i].from = site }

\* the pass a relocation of m's result comes from: 0 call, 1 pool constant,
\* 2 Data-section word
PassOf(m, r) ==
    IF r.kind = "Call" THEN 0
    ELSE IF \E w \in PoolsOf(m) : w.address = r.from THEN 1
    ELSE 2

\* the function of m a call site or a pool constant belongs to
OwnerOf(m, r) ==
    CHOOSE f \in AllFunctions(modules[m]) :
        \/ r.kind = "Call" /\ \E c \in Range(f.calls) : c.site = r.from
        \/ r.kind = "Load" /\ \E w \in Range(f.pools) : w.address = r.from

\* the order the code appends in: function by function (calls, then pool
\* constants), then the Data-section words
Before(m, a, b) ==
    LET pa == PassOf(m, a)
        pb == PassOf(m, b)
    IN  IF pa = 2 \/ pb = 2
        THEN pa < 2 \/ (pb = 2 /\ a.from < b.from)
        ELSE LET fa == OwnerOf(m, a).addr
                 fb == OwnerOf(m, b).addr
             IN  \/ fa < fb
                 \/ fa = fb /\ pa < pb
                 \/ fa = fb /\ pa = pb /\ a.from < b.from

(***************************************************************************)
(* C1                                                                      *)
(***************************************************************************)
\* C1 as stated: in every returned relocation list, all Call relocations
\* come first, then all pool-constant Loads, then all Data-word Loads.
C1_PassOrder ==
    \A m \in ModuleIds : Analysed(m) =>
        \A i, j \in DOMAIN Rels(m) :
            i < j => PassOf(m, Rels(m)[i]) <= PassOf(m, Rels(m)[j])

\* C1 amended: the returned relocation list is ordered function by function
\* in function-address order; within one function its Call relocations (in
\* site order) precede its pool-constant Loads; every relocation that comes
\* from a function precedes every Load from a Data-section word, and those
\* are in ascending word order.
C1_FunctionOrder ==
    \A m \in ModuleIds : Analysed(m) =>
        \A i, j \in DOMAIN Rels(m) :
            i < j => Before(m, Rels(m)[i], Rels(m)[j])

\* a pool-constant Load of an earlier function stands before a Call of a
\* later function, and a Data-word Load closes the list
C1_Witness ==
    \E m \in ModuleIds : Analysed(m) /\
        \E i, j, k \in DOMAIN Rels(m) :
            /\ i < j /\ j < k
            /\ PassOf(m, Rels(m)[i]) = 1
            /\ PassOf(m, Rels(m)[j]) = 0
            /\ PassOf(m, Rels(m)[k]) = 2

(***************************************************************************)
(* C2                                                                      *)
(***************************************************************************)
\* C2 as stated: every Call relocation with a destination other than None
\* and Any has, in the destination module, a Code-section function starting
\* exactly at target & !1 with the relocation's target Thumb flag, local
\* calls included.
C2_CallTargetIsFunctionStart ==
    \A m \in ModuleIds : Analysed(m) =>
        \A i \in DOMAIN Rels(m) :
            LET r == Rels(m)[i] IN
            (r.kind = "Call" /\ r.module.tag \notin {"None", "Overlays"}) =>
                \E d \in ModuleIds :
                    DestNames(r.module, d) /\ HasFunctionAt(d, ClearThumb(r.to), r.to_thumb)

\* C2 amended: for a Call relocation with a destination other than None and
\* Any, if the target lies in no section of the focus module the destination
\* module has a function starting exactly at the target with the
\* relocation's target Thumb flag; if the target lies in a section of the
\* focus module the destination is the focus module and its symbol map has a
\* function whose range contains the target (neither the start address nor
\* the Thumb flag is compared).
C2_CallTarget ==
    \A m \in ModuleIds : Analysed(m) =>
        \A i \in DOMAIN Rels(m) :
            LET r == Rels(m)[i] IN
            (r.kind = "Call" /\ r.module.tag \notin {"None", "Overlays"}) =>
                IF Contains(modules[m], r.to)
                THEN /\ DestNames(r.module, m)
                     /\ \E s \in symbol_maps[m] :
                            s.kind = "Function" /\ s.addr <= r.to /\ r.to < s.end
                ELSE \E d \in ModuleIds :
                        DestNames(r.module, d) /\ HasFunctionAt(d, r.to, r.to_thumb)

\* one result holds a call into the middle of a local function and a call
\* resolved to a single other module
C2_Witness ==
    \E m \in ModuleIds : Analysed(m) /\
        \E i, j \in DOMAIN Rels(m) :
            /\ Rels(m)[i].kind = "Call" /\ Rels(m)[j].kind = "Call"
            /\ Contains(modules[m], Rels(m)[i].to)
            /\ ~HasFunctionAt(m, Rels(m)[i].to, Rels(m)[i].to_thumb)
            /\ ~Contains(modules[m], Rels(m)[j].to)
            /\ Rels(m)[j].module.tag \notin {"None", "Overlays"}

(***************************************************************************)
(* C3                                                                      *)
(***************************************************************************)
\* C3: a successful dry run of init has created nothing under output_path.
C3_DryWritesNothing == (ipc = "done" /\ dry) => fs = {}

(***************************************************************************)
(* C4                                                                      *)
(***************************************************************************)
\* C4: no Load relocation and no ExternalSymbol of a returned result points
\* into a section of the focus module, and a pool constant or Data word
\* whose value lies in a section of the focus module has no relocation at
\* its site.
C4_NoLocalExternalLoads ==
    \A m \in ModuleIds : Analysed(m) =>
        /\ \A i \in DOMAIN Rels(m) :
               Rels(m)[i].kind = "Load" => ~Contains(modules[m], Rels(m)[i].to)
        /\ \A i \in DOMAIN Exts(m) : ~Contains(modules[m], Exts(m)[i].address)
        /\ \A w \in PoolsOf(m) \cup DataWordsOf(m) :
               Contains(modules[m], w.value) => RelsAt(m, w.address) = {}

\* a result with a Load, of a module that also holds a pointer into itself
\* which another module's sections contain as well
C4_Witness ==
    \E m \in ModuleIds : Analysed(m) /\
        /\ \E i \in DOMAIN Rels(m) : Rels(m)[i].kind = "Load"
        /\ \E w \in PoolsOf(m) \cup DataWordsOf(m) :
               /\ Contains(modules[m], w.value)
               /\ \E d \in ModuleIds \ {m} : AcceptsPointer(d, w.value)

(***************************************************************************)
(* C5                                                                      *)
(***************************************************************************)
\* C5: a conditional call site yields no Call relocation; every external
\* label of a symbol map comes from an unconditional call; and a
\* DanglingCall failure comes from an unconditional call to an address in a
\* section of the focus module that no function covers.
C5_ConditionalCallsSkipped ==
    \A m \in ModuleIds :
        /\ Analysed(m) =>
               \A c \in CallsOf(m) : c.cond =>
                   \A i \in RelsAt(m, c.site) : Rels(m)[i].kind # "Call"
        /\ \A s \in symbol_maps[m] : s.kind = "ExternalLabel" =>
               \E c \in CallsOf(m) : ~c.cond /\ c.target = s.addr /\ c.thumb = s.thumb
        /\ outcome[m] = "DanglingCall" =>
               \E c \in CallsOf(m) :
                   /\ ~c.cond
                   /\ Contains(modules[m], c.target)
                   /\ \A f \in AllFunctions(modules[m]) :
                          ~(f.addr <= c.target /\ c.target < f.end)

\* a module analysed without error although it holds a conditional call to
\* a local address that no function covers
C5_Witness ==
    \E m \in ModuleIds : Analysed(m) /\
        \E c \in CallsOf(m) :
            /\ c.cond
            /\ Contains(modules[m], c.target)
            /\ \A f \in AllFunctions(modules[m]) :
                   ~(f.addr <= c.target /\ c.target < f.end)

(***************************************************************************)
(* C6                                                                      *)
(***************************************************************************)
\* C6: a focus module whose analysis failed has no RelocationResult.
C6_NoPartialResult ==
    \A m \in ModuleIds : outcome[m] \in Errors => results[m] = NoResult

\* the analysis of a module failed after its first function had already
\* produced relocations
C6_Witness ==
    \E m \in ModuleIds :
        /\ outcome[m] \in {"DanglingCall", "AmbiguousRelocation"}
        /\ LET first == FunctionSeq(modules[m])[1]
               st == FunctionStep(modules, m, first,
                         [err |-> "", syms |-> symbol_maps, rels |-> <<>>, exts |-> <<>>])
           IN  st.err = "" /\ Len(st.rels) > 0

(***************************************************************************)
(* C7                                                                      *)
(***************************************************************************)
\* the modules other than m that own the target of an external call / the
\* value of an external word
CallHits(c) == { d \in ModuleIds : HasFunctionAt(d, c.target, c.thumb) }

PointerHits(m, pointer) == { d \in ModuleIds \ {m} : AcceptsPointer(d, pointer) }

Mixed(hits) == \E i, j \in hits : IsOverlay(i) /\ ~IsOverlay(j)

\* C7: every id of an Any destination names an overlay other than the focus
\* module whose sections contain the target, and a module that was analysed
\* without error has no external call or word whose candidates mix overlays
\* with Main or an autoload.
C7_AnyNamesOverlays ==
    \A m \in ModuleIds : Analysed(m) =>
        /\ \A i \in DOMAIN Rels(m) :
               LET r == Rels(m)[i] IN
               r.module.tag = "Overlays" =>
                   \A k \in DOMAIN r.module.ids :
                       \E d \in ModuleIds \ {m} :
                           /\ IsOverlay(d)
                           /\ modules[d].kind.id = r.module.ids[k]
                           /\ Contains(modules[d], r.to)
        /\ \A c \in ExternalCalls(m) : ~Mixed(CallHits(c))
        /\ \A w \in ExternalWords(m) : ~Mixed(PointerHits(m, w.value))

\* one result holds a Call and a Load with an Any destination
C7_Witness ==
    \E m \in ModuleIds : Analysed(m) /\
        \E i, j \in DOMAIN Rels(m) :
            /\ Rels(m)[i].kind = "Call" /\ Rels(m)[i].module.tag = "Overlays"
            /\ Rels(m)[j].kind = "Load" /\ Rels(m)[j].module.tag = "Overlays"

(***************************************************************************)
(* C8                                                                      *)
(***************************************************************************)
AnalyseStep(m) ==
    scanned = NumModules /\ outcome[m] = "pending" /\ outcome'[m] # "pending"

StripLabels(syms) ==
    [i \in DOMAIN syms |-> { s \in syms[i] : s.kind # "ExternalLabel" }]

\* C8: the analysis of focus module m changes no other module's symbol map;
\* to m's own map it only adds external labels of unconditional local calls
\* that land strictly inside a function; and what it returns is what it
\* returns from the symbol maps as the Local Scanner left them, whichever
\* focus passes ran before it.
C8_OwnMapOnly ==
    [][\A m \in ModuleIds : AnalyseStep(m) =>
          /\ \A j \in ModuleIds \ {m} : symbol_maps'[j] = symbol_maps[j]
          /\ symbol_maps[m] \subseteq symbol_maps'[m]
          /\ \A s \in symbol_maps'[m] \ symbol_maps[m] :
                /\ s.kind = "ExternalLabel"
                /\ \E c \in CallsOf(m) :
                      /\ ~c.cond /\ c.target = s.addr /\ c.thumb = s.thumb
                      /\ \E f \in AllFunctions(modules[m]) :
                             f.addr < c.target /\ c.target < f.end
          /\ LET b == analyze_external_references(modules, m, StripLabels(symbol_maps)) IN
             /\ results'[m] = b.result
             /\ outcome'[m] = IF b.err # "" THEN b.err ELSE "ok"
      ]_vars

\* two focus modules were analysed and each put an external label into its
\* own symbol map
C8_Witness ==
    \E m, j \in ModuleIds :
        /\ m # j /\ Analysed(m) /\ Analysed(j)
        /\ \E s \in symbol_maps[m] : s.kind = "ExternalLabel"
        /\ \E s \in symbol_maps[j] : s.kind = "ExternalLabel"

(***************************************************************************)
(* C9                                                                      *)
(***************************************************************************)
LocalWordsOf(m) == PoolsOf(m) \cup DataWordsOf(m)

\* C9: every Data or Bss symbol of a module's symbol map lies in a section
\* of that module of the same kind and is the value of a scanned word at
\* whose site the module has a Load relocation to it with addend 0 and the
\* module itself as destination; a scanned word whose value no section of
\* the module contains has no symbol and no relocation.
C9_LocalSymbols ==
    \A m \in DOMAIN modules :
        /\ \A s \in symbol_maps[m] : s.kind \in {"Data", "Bss"} =>
               /\ \E sec \in Range(modules[m].sections) :
                      sec.start <= s.addr /\ s.addr < sec.end /\ sec.kind = s.kind
               /\ \E w \in LocalWordsOf(m) :
                      /\ w.value = s.addr
                      /\ \E i \in DOMAIN relocations[m] :
                             LET r == relocations[m][i] IN
                             /\ r.kind = "Load" /\ r.from = w.address /\ r.to = s.addr
                             /\ r.addend = 0
                             /\ r.module.tag # "Overlays" /\ DestNames(r.module, m)
        /\ \A w \in LocalWordsOf(m) : ~Contains(modules[m], w.value) =>
               /\ \A i \in DOMAIN relocations[m] : relocations[m][i].from # w.address
               /\ \A s \in symbol_maps[m] : s.addr # w.value

\* a scanned module with a Data symbol, a Bss symbol and a word that points
\* outside it
C9_Witness ==
    \E m \in DOMAIN modules :
        /\ m <= scanned
        /\ \E s \in symbol_maps[m] : s.kind = "Data"
        /\ \E s \in symbol_maps[m] : s.kind = "Bss"
        /\ \E w \in LocalWordsOf(m) : ~Contains(modules[m], w.value)

(***************************************************************************)
(* C10                                                                     *)
(***************************************************************************)
NoTargetCalls(m) == { c \in ExternalCalls(m) : CallHits(c) = {} }

NoTargetWords(m) == { w \in ExternalWords(m) : PointerHits(m, w.value) = {} }

\* an external call without target has exactly one relocation, a Call with
\* destination None
NoTargetCallsRelocated(m) ==
    \A c \in NoTargetCalls(m) :
        /\ Cardinality(RelsAt(m, c.site)) = 1
        /\ \A i \in RelsAt(m, c.site) :
               /\ Rels(m)[i].kind = "Call"
               /\ Rels(m)[i].to = c.target
               /\ Rels(m)[i].module = RelNone

\* the sites a fatal error can come from
DanglingSite(m) ==
    \E c \in CallsOf(m) :
        /\ ~c.cond /\ Contains(modules[m], c.target)
        /\ \A f \in AllFunctions(modules[m]) : ~(f.addr <= c.target /\ c.target < f.end)

AmbiguousSite(m) ==
    \/ \E c \in ExternalCalls(m) : Mixed(CallHits(c))
    \/ \E w \in ExternalWords(m) : Mixed(PointerHits(m, w.value))

ConflictSite(m) ==
    \E c, d \in CallsOf(m) :
        ~c.cond /\ ~d.cond /\ c.target = d.target /\ c.thumb # d.thumb

\* C10 as stated: an external call without target gets one Call relocation
\* with destination None, and an external pool constant or Data word
\* without candidate gets a Load relocation with destination None.
C10_NoneForEveryNoTarget ==
    \A m \in ModuleIds : Analysed(m) =>
        /\ NoTargetCallsRelocated(m)
        /\ \A w \in NoTargetWords(m) :
               \E i \in RelsAt(m, w.address) :
                   Rels(m)[i].kind = "Load" /\ Rels(m)[i].module = RelNone

\* C10 amended: an external call without target does not fail the analysis
\* and gets exactly one Call relocation with destination None; an external
\* pool constant or Data word without candidate is skipped: no relocation
\* at its site and no ExternalSymbol for its value.
C10_NoneForCallsOnly ==
    \A m \in ModuleIds :
        /\ outcome[m] \in Errors => DanglingSite(m) \/ AmbiguousSite(m) \/ ConflictSite(m)
        /\ Analysed(m) =>
               /\ NoTargetCallsRelocated(m)
               /\ \A w \in NoTargetWords(m) :
                      /\ RelsAt(m, w.address) = {}
                      /\ \A i \in DOMAIN Exts(m) : Exts(m)[i].address # w.value

\* a result of a module with an external call without target and an
\* external word without candidate
C10_Witness ==
    \E m \in ModuleIds :
        Analysed(m) /\ NoTargetCalls(m) # {} /\ NoTargetWords(m) # {}

(***************************************************************************)
(* C11                                                                     *)
(***************************************************************************)
\* the Load relocations of m's result, in result order
LoadsOf(m) == SelectSeq(Rels(m), LAMBDA r : r.kind = "Load")

WordsOf(m) == PoolsOf(m) \cup DataWordsOf(m)

\* the candidate names a section of its module that contains the pointer
\* and, when that section is Code, has a function at (pointer & !1) whose
\* Thumb flag is the pointer's low bit
ValidCandidate(m, c, pointer) ==
    /\ c.module_index \in ModuleIds \ {m}
    /\ c.section_index \in DOMAIN modules[c.module_index].sections
    /\ LET s == modules[c.module_index].sections[c.section_index]
       IN  /\ s.start <= pointer /\ pointer < s.end
           /\ (s.kind = "Code" =>
                  \E f \in Range(s.functions) :
                      f.addr = ClearThumb(pointer) /\ f.thumb = ThumbBit(pointer))

\* the sections of modules other than m that contain the pointer
HitsOf(m, pointer) ==
    UNION { { <<d, k>> : k \in { x \in DOMAIN modules[d].sections :
                                   /\ modules[d].sections[x].start <= pointer
                                   /\ pointer < modules[d].sections[x].end } } :
            d \in ModuleIds \ {m} }

\* every hit is a Code section without function at (pointer & !1) ...
MissingHit(h, pointer) ==
    /\ modules[h[1]].sections[h[2]].kind = "Code"
    /\ \A f \in Range(modules[h[1]].sections[h[2]].functions) :
           f.addr # ClearThumb(pointer)

\* ... or with a function there of the other Thumb flag
MismatchedHit(h, pointer) ==
    /\ modules[h[1]].sections[h[2]].kind = "Code"
    /\ \E f \in Range(modules[h[1]].sections[h[2]].functions) :
           f.addr = ClearThumb(pointer)
    /\ \A f \in Range(modules[h[1]].sections[h[2]].functions) :
           f.addr = ClearThumb(pointer) => f.thumb # ThumbBit(pointer)

\* the words of m whose value hits other modules only in Code sections
\* that drop it
DroppedWords(m) ==
    { w \in WordsOf(m) :
        /\ HitsOf(m, w.value) # {}
        /\ \A h \in HitsOf(m, w.value) :
               MissingHit(h, w.value) \/ MismatchedHit(h, w.value) }

\* C11: in every returned result the ExternalSymbols are, one-to-one and in
\* order, the Load relocations (same address as target, addend 0; Call
\* relocations have none); every candidate list is non-empty, leaves out
\* the focus module, and each candidate names a section of its module that
\* contains the pointer, a Code section only with a function at
\* (pointer & !1) of the pointer's Thumb flag; a word whose value hits other
\* modules only in Code sections with a missing or Thumb-mismatched
\* function has no relocation at its site and no ExternalSymbol.
C11_ExternalSymbolsPaired ==
    \A m \in ModuleIds : Analysed(m) =>
        /\ Len(LoadsOf(m)) = Len(Exts(m))
        /\ \A i \in DOMAIN Exts(m) :
               /\ LoadsOf(m)[i].to = Exts(m)[i].address
               /\ LoadsOf(m)[i].addend = 0
               /\ Len(Exts(m)[i].candidates) > 0
               /\ \A k \in DOMAIN Exts(m)[i].candidates :
                      ValidCandidate(m, Exts(m)[i].candidates[k], Exts(m)[i].address)
        /\ \A w \in DroppedWords(m) :
               /\ RelsAt(m, w.address) = {}
               /\ \A i \in DOMAIN Exts(m) : Exts(m)[i].address # w.value

\* a result holding a Call relocation and two ExternalSymbols, beside a
\* result with a Code-section candidate of a module one of whose words is
\* dropped for a Thumb mismatch alone
C11_Witness ==
    /\ \E m \in ModuleIds :
           /\ Analysed(m)
           /\ \E i \in DOMAIN Rels(m) : Rels(m)[i].kind = "Call"
           /\ Len(Exts(m)) >= 2
    /\ \E m \in ModuleIds :
           /\ Analysed(m)
           /\ \E i \in DOMAIN Exts(m) : \E k \in DOMAIN Exts(m)[i].candidates :
                  modules[Exts(m)[i].candidates[k].module_index]
                      .sections[Exts(m)[i].candidates[k].section_index].kind = "Code"
           /\ \E w \in DroppedWords(m) :
                  \A h \in HitsOf(m, w.value) : MismatchedHit(h, w.value)

=============================================================================
